---- MODULE Spec2Model ----
(***************************************************************************)
(* FLAC metadata reader of goulash/audio (package flac): the stream        *)
(* marker, the metadata block loop of readMetadata, the block header and   *)
(* the STREAMINFO decoder, over an in-memory byte source with a cursor;    *)
(* the methods of the decoded aggregate (StreamInfo, Length, Bitrate,      *)
(* Duration); and the ID3v1 trailer reader of package id3.                 *)
(*                                                                         *)
(* Unsigned machine words (uint16, uint32, uint64) are sequences of bytes, *)
(* most significant byte first, because a 32-bit header with its high bit  *)
(* set does not fit the model checker's integers.  Small fields (type,     *)
(* length, sample rate, ...) are converted to integers once masked; the    *)
(* int64 arithmetic of durations is done on 8-byte words.                  *)
(***************************************************************************)
EXTENDS Integers, Sequences, FiniteSets, TLC

VARIABLES
    src,    \* the bytes behind the io.Reader
    pos,    \* number of bytes of src consumed so far
    op,     \* the function the caller invoked ("none" before the call)
    pc,     \* position of the call: "start", "header", "dispatch", "done"
            \* (ReadID3v1: "start", "tag", "fields", "done")
    h,      \* readMetadata's h: the header decoded by the current iteration
    m,      \* readMetadata's m: the aggregate under construction
    ret,    \* what the call returned ([val, m, err]) once pc = "done"
    hist,   \* the headers decoded so far, each with the offset it was read at
    trace   \* the Seek and Read calls ReadID3v1 has made on its source, in order

vars == <<src, pos, op, pc, h, m, ret, hist, trace>>

----------------------------------------------------------------------------
(* Errors and nil.  A pointer is a sequence: <<>> is nil, <<x>> points to x. *)

NoErr == "nil"
ErrUnexpectedEOF == "unexpected EOF"
ErrInvalidStream == "stream is invalid"
Nil == <<>>

----------------------------------------------------------------------------------------------------------------------------------------
(* Machine words as byte sequences, most significant byte first: a uint32   *)
(* is 4 bytes, a uint64 is 8.  The constants of the code are written the    *)
(* same way: 0x00FFFFFF is <<0, 255, 255, 255>>.                            *)

Zero(n) == [i \in 1..n |-> 0]

\* a & b on two bytes, bit by bit
ByteAnd(a, b) ==
    IF a = 0 \/ b = 0 THEN 0
    ELSE IF b = 255 THEN a
    ELSE IF a = 255 THEN b
    ELSE LET bit(j) == ((a \div (2 ^ j)) % 2) * ((b \div (2 ^ j)) % 2)
         IN  bit(0) + 2 * bit(1) + 4 * bit(2) + 8 * bit(3)
             + 16 * bit(4) + 32 * bit(5) + 64 * bit(6) + 128 * bit(7)

\* x & y on words of the same width
And(x, y) == [i \in 1..Len(x) |-> ByteAnd(x[i], y[i])]

\* (mutant) x >> k moves whole bytes only: the k % 8 remaining bits are not shifted
Shr_wholeBytes(x, k) ==
    [i \in 1..Len(x) |-> IF i - (k \div 8) < 1 THEN 0 ELSE x[i - (k \div 8)]]

\* x >> k on an unsigned word: whole bytes move down by k \div 8 places, and
\* the low k % 8 bits of each byte spill into the byte below it
Shr(x, k) ==
    LET q == k \div 8
        r == k % 8
        byte(i) == IF i < 1 THEN 0 ELSE x[i]
    IN  [i \in 1..Len(x) |->
            (byte(i - q) \div (2 ^ r)) + (byte(i - q - 1) % (2 ^ r)) * (2 ^ (8 - r))]

\* conversion to a wider unsigned type of n bytes (zero extension)
Widen(x, n) == Zero(n - Len(x)) \o x

\* (mutant) no conversion keeps more than 16 bits
Narrow_short(x, n) == SubSeq(x, Len(x) - (IF n > 2 THEN 2 ELSE n) + 1, Len(x))

\* conversion to a narrower unsigned type of n bytes (keeps the low bytes)
Narrow(x, n) == SubSeq(x, Len(x) - n + 1, Len(x))

\* integer value of a word; only used on words known to be below 2^31
RECURSIVE ToIntUpTo(_, _)
ToIntUpTo(x, n) == IF n = 0 THEN 0 ELSE 256 * ToIntUpTo(x, n - 1) + x[n]

ToInt(x) == ToIntUpTo(x, Len(x))

\* the uint32 with the value of the integer n (0 <= n < 2^31)
FromInt(n) == <<n \div 16777216, (n \div 65536) % 256, (n \div 256) % 256, n % 256>>

\* the bytes of a word given place by place as numbers that may exceed 255:
\* the excess is carried towards the first byte, and the carry out of the
\* first byte is lost, as in the machine
RECURSIVE NormUpTo(_, _, _)
NormUpTo(c, i, carry) ==
    IF i = 0 THEN <<>>
    ELSE Append(NormUpTo(c, i - 1, (c[i] + carry) \div 256), (c[i] + carry) % 256)

Norm(c) == NormUpTo(c, Len(c), 0)

\* -x and x - y in two's complement
Neg(x) == Norm([i \in 1..Len(x) |-> 255 - x[i] + (IF i = Len(x) THEN 1 ELSE 0)])
Sub(x, y) == Norm([i \in 1..Len(x) |-> x[i] + 255 - y[i] + (IF i = Len(x) THEN 1 ELSE 0)])

\* x * y on words of the same width, the high half of the product lost
RECURSIVE MulColumn(_, _, _, _)
MulColumn(x, y, i, a) ==
    IF a > Len(x) THEN 0
    ELSE x[a] * y[i + Len(x) - a] + MulColumn(x, y, i, a + 1)

Mul(x, y) == Norm([i \in 1..Len(x) |-> MulColumn(x, y, i, i)])

\* x < y on unsigned words of the same width
Less(x, y) ==
    \E i \in 1..Len(x) : x[i] < y[i] /\ \A j \in 1..(i - 1) : x[j] = y[j]

\* bit k of x, bit 1 being the most significant one
BitOf(x, k) == (x[(k - 1) \div 8 + 1] \div (2 ^ (7 - ((k - 1) % 8)))) % 2

\* 2 * x + b
Shl1(x, b) == Norm([i \in 1..Len(x) |-> 2 * x[i] + (IF i = Len(x) THEN b ELSE 0)])

\* one step of binary long division of x by y: st is the remainder and the
\* quotient after the bits before bit k of x
DivBit(x, y, k, st) ==
    LET r2 == Shl1(st.rem, BitOf(x, k))
    IN  IF Less(r2, y) THEN [rem |-> r2, quo |-> Shl1(st.quo, 0)]
        ELSE [rem |-> Sub(r2, y), quo |-> Shl1(st.quo, 1)]

\* the eight steps for byte j of x
DivByte(x, y, j, st) ==
    LET k == 8 * (j - 1)
    IN  DivBit(x, y, k + 8, DivBit(x, y, k + 7, DivBit(x, y, k + 6, DivBit(x, y, k + 5,
        DivBit(x, y, k + 4, DivBit(x, y, k + 3, DivBit(x, y, k + 2, DivBit(x, y, k + 1, st))))))))

\* unsigned x / y (y # 0), from byte j of x on (the state after byte j is
\* bound as a set element so that it is computed before the next byte)
RECURSIVE UDivFrom(_, _, _, _)
UDivFrom(x, y, j, st) ==
    IF j > Len(x) THEN st.quo
    ELSE CHOOSE q \in { UDivFrom(x, y, j + 1, s) : s \in {DivByte(x, y, j, st)} } : TRUE

UDiv(x, y) == UDivFrom(x, y, 1, [rem |-> Zero(Len(x)), quo |-> Zero(Len(x))])

\* signed words: the sign is the top bit
IsNeg(x) == x[1] >= 128
Abs(x) == IF IsNeg(x) THEN Neg(x) ELSE x

\* x / y on signed words (y # 0): the quotient truncated toward zero
Quo(x, y) ==
    LET q == UDiv(Abs(x), Abs(y))
    IN  IF IsNeg(x) # IsNeg(y) THEN Neg(q) ELSE q

\* what evaluating an expression can end in besides a value: a run-time panic
NoFault == "none"
DivideByZero == "integer divide by zero"
NilDereference == "nil pointer dereference"

\* time.Second and the constant 1000 as int64
Second == <<0, 0, 0, 0, 59, 154, 202, 0>>
Thousand == <<0, 0, 0, 0, 0, 0, 3, 232>>

----------------
(* Byte reader primitives.  They follow the documented contract "read       *)
(* exactly n bytes or fail with ErrUnexpectedEOF" and the package's tests   *)
(* TestReadUint16, TestReadUint24 and TestReadBlockHeader.                  *)
(* s is the source, p the cursor; the result carries the new cursor.        *)

readBytes(s, p, n) ==
    IF p + n <= Len(s)
    THEN [val |-> SubSeq(s, p + 1, p + n), err |-> NoErr, pos |-> p + n]
    ELSE [val |-> <<>>, err |-> ErrUnexpectedEOF, pos |-> Len(s)]

readString(s, p, n) == readBytes(s, p, n)

\* big-endian interpretation of the bytes read: the first byte read is the
\* most significant one
BigEndian(bs) == [i \in 1..Len(bs) |-> bs[i]]

\* reads nbytes and returns them as a big-endian word of w bytes, 0 on error
readUint(s, p, nbytes, w) ==
    LET r == readBytes(s, p, nbytes)
    IN  [val |-> IF r.err = NoErr THEN Widen(BigEndian(r.val), w) ELSE Zero(w),
         err |-> r.err, pos |-> r.pos]

readUint16(s, p) == readUint(s, p, 2, 2)
readUint24(s, p) == readUint(s, p, 3, 4)
readUint32(s, p) == readUint(s, p, 4, 4)
readUint48(s, p) == readUint(s, p, 6, 8)
readUint64(s, p) == readUint(s, p, 8, 8)

----------------------------------------------------------------------------
(* Stream marker                                                            *)

\* the literal "fLaC"
StreamMarker == <<102, 76, 97, 67>>

\* (mutant) the comparison with "fLaC" is left out
readStreamMarker_noCompare(s, p) ==
    LET r == readString(s, p, 4) IN [err |-> r.err, pos |-> r.pos]

readStreamMarker(s, p) ==
    LET r == readString(s, p, 4)
    IN  IF r.err # NoErr THEN [err |-> r.err, pos |-> r.pos]
        ELSE IF r.val # StreamMarker THEN [err |-> ErrInvalidStream, pos |-> r.pos]
        ELSE [err |-> NoErr, pos |-> r.pos]

----------------------------------------------------------------------------
(* Metadata block header                                                    *)

streamInfoBlock == 0
paddingBlock == 1
applicationBlock == 2
seektableBlock == 3
vorbisCommentBlock == 4
cuesheetBlock == 5
pictureBlock == 6
invalidBlock == 127

\* (mutant) on a short read the bytes that were read are still decoded
readBlockHeader_partial(s, p) ==
    LET r == readUint32(s, p)
    IN  [val |-> IF r.err = NoErr THEN r.val
                 ELSE [i \in 1..4 |-> IF p + i <= Len(s) THEN s[p + i] ELSE 0],
         err |-> r.err, pos |-> r.pos]

readBlockHeader(s, p) ==
    LET r == readUint32(s, p)
    IN  [val |-> r.val, err |-> r.err, pos |-> r.pos]

\* (mutant) tests bit 30 instead of bit 31
IsLast_bit30(hh) == And(hh, <<64, 0, 0, 0>>) # <<0, 0, 0, 0>>

\* h&0x80000000 != 0
IsLast(hh) == And(hh, <<128, 0, 0, 0>>) # <<0, 0, 0, 0>>

\* (mutant) the flag bit is not masked out of the type
Type_noMask(hh) == ToInt(Shr(hh, 24))

\* blockType((h >> 24) & 0x7F)
Type(hh) == ToInt(And(Shr(hh, 24), <<0, 0, 0, 127>>))

\* int64(h & 0x00FFFFFF)
Length(hh) == ToInt(And(hh, <<0, 255, 255, 255>>))

IsValid(hh) == Type(hh) # invalidBlock

----------------------------------------------------------------------------
(* Metadata block: STREAMINFO                                               *)

\* (mutant) the block ends where its header says it ends
readStreamInfoBlock_declared(s, p, hh) ==
    LET w1 == readUint32(s, p)
        w2 == readUint48(s, w1.pos)
        w3 == readUint64(s, w2.pos)
        md == readBytes(s, w3.pos, 16)
    IN  IF w1.err # NoErr THEN [val |-> Nil, err |-> w1.err, pos |-> w1.pos]
        ELSE IF w2.err # NoErr THEN [val |-> Nil, err |-> w2.err, pos |-> w2.pos]
        ELSE IF w3.err # NoErr THEN [val |-> Nil, err |-> w3.err, pos |-> w3.pos]
        ELSE IF md.err # NoErr THEN [val |-> Nil, err |-> md.err, pos |-> md.pos]
        ELSE [val |-> << [
                MinBlockSize  |-> ToInt(Narrow(Shr(w1.val, 16), 2)),
                MaxBlockSize  |-> ToInt(Narrow(And(w1.val, <<0, 0, 255, 255>>), 2)),
                MinFrameSize  |-> ToInt(Narrow(Shr(w2.val, 24), 4)),
                MaxFrameSize  |-> ToInt(Narrow(And(w2.val, <<0, 0, 0, 0, 0, 255, 255, 255>>), 4)),
                SampleRate    |-> ToInt(Narrow(Shr(w3.val, 44), 4)),
                NumChannels   |-> ToInt(Narrow(And(Shr(w3.val, 41), <<0, 0, 0, 0, 0, 0, 0, 7>>), 1)),
                BitsPerSample |-> ToInt(Narrow(And(Shr(w3.val, 36), <<0, 0, 0, 0, 0, 0, 0, 31>>), 1)),
                TotalSamples  |-> And(w3.val, <<0, 0, 0, 15, 255, 255, 255, 255>>),
                MD5Sum        |-> md.val] >>,
              err |-> NoErr,
              pos |-> IF p + Length(hh) <= Len(s) THEN p + Length(hh) ELSE Len(s)]

\* the header argument is ignored, as in the code (parameter _)
readStreamInfoBlock(s, p, hh) ==
    LET w1 == readUint32(s, p)
        w2 == readUint48(s, w1.pos)
        w3 == readUint64(s, w2.pos)
        md == readBytes(s, w3.pos, 16)
    IN  IF w1.err # NoErr THEN [val |-> Nil, err |-> w1.err, pos |-> w1.pos]
        ELSE IF w2.err # NoErr THEN [val |-> Nil, err |-> w2.err, pos |-> w2.pos]
        ELSE IF w3.err # NoErr THEN [val |-> Nil, err |-> w3.err, pos |-> w3.pos]
        ELSE IF md.err # NoErr THEN [val |-> Nil, err |-> md.err, pos |-> md.pos]
        ELSE [val |-> << [
                \* uint16(p >> 16), uint16(p & 0xFFFF)
                MinBlockSize  |-> ToInt(Narrow(Shr(w1.val, 16), 2)),
                MaxBlockSize  |-> ToInt(Narrow(And(w1.val, <<0, 0, 255, 255>>), 2)),
                \* uint32(x >> 24), uint32(x & 0xFFFFFF)
                MinFrameSize  |-> ToInt(Narrow(Shr(w2.val, 24), 4)),
                MaxFrameSize  |-> ToInt(Narrow(And(w2.val, <<0, 0, 0, 0, 0, 255, 255, 255>>), 4)),
                \* uint32(x >> 44), uint8((x >> 41) & 0x07), uint8((x >> 36) & 0x1F)
                SampleRate    |-> ToInt(Narrow(Shr(w3.val, 44), 4)),
                NumChannels   |-> ToInt(Narrow(And(Shr(w3.val, 41), <<0, 0, 0, 0, 0, 0, 0, 7>>), 1)),
                BitsPerSample |-> ToInt(Narrow(And(Shr(w3.val, 36), <<0, 0, 0, 0, 0, 0, 0, 31>>), 1)),
                \* uint64(x & 0x0FFFFFFFFF), kept as a 64-bit word
                TotalSamples  |-> And(w3.val, <<0, 0, 0, 15, 255, 255, 255, 255>>),
                MD5Sum        |-> md.val] >>,
              err |-> NoErr, pos |-> md.pos]

----------------------------------------------------------------------------
(* The other metadata blocks: PADDING and the not yet implemented ones      *)

readPaddingBlock(s, p, hh) ==
    LET r == readBytes(s, p, Length(hh)) IN [err |-> r.err, pos |-> r.pos]

readApplicationBlock(s, p, hh) ==
    LET r == readBytes(s, p, Length(hh)) IN [err |-> r.err, pos |-> r.pos]

readSeekTableBlock(s, p, hh) ==
    LET r == readBytes(s, p, Length(hh)) IN [err |-> r.err, pos |-> r.pos]

\* (mutant) the comment block is parsed into a map
readVorbisCommentBlock_parsed(s, p, hh) ==
    LET r == readBytes(s, p, Length(hh))
    IN  [val |-> IF r.err = NoErr THEN << [vendor |-> r.val] >> ELSE Nil,
         err |-> r.err, pos |-> r.pos]

\* returns a nil map
readVorbisCommentBlock(s, p, hh) ==
    LET r == readBytes(s, p, Length(hh)) IN [val |-> Nil, err |-> r.err, pos |-> r.pos]

readCuesheetBlock(s, p, hh) ==
    LET r == readBytes(s, p, Length(hh)) IN [err |-> r.err, pos |-> r.pos]

readPictureBlock(s, p, hh) ==
    LET r == readBytes(s, p, Length(hh)) IN [err |-> r.err, pos |-> r.pos]

----------------------------------------------------------------------------
(* readMetadata: the pieces of one loop iteration                           *)

\* (mutant) the aggregate starts out with an empty StreamInfo in place
NewMetadata_emptyInfo ==
    [bytes |-> 4,
     info |-> << [MinBlockSize |-> 0, MaxBlockSize |-> 0, MinFrameSize |-> 0,
                  MaxFrameSize |-> 0, SampleRate |-> 0, NumChannels |-> 0,
                  BitsPerSample |-> 0, TotalSamples |-> <<0, 0, 0, 0, 0, 0, 0, 0>>,
                  MD5Sum |-> <<>>] >>,
     raw |-> Nil]

\* m := Metadata{bytes: 4}
NewMetadata == [bytes |-> 4, info |-> Nil, raw |-> Nil]

\* h, err := readBlockHeader(r); m.bytes += h.Length() + 4
loopHeader(s, p, mm) ==
    LET r == readBlockHeader(s, p)
    IN  IF r.err # NoErr THEN [h |-> r.val, m |-> mm, err |-> r.err, pos |-> r.pos]
        ELSE [h |-> r.val, m |-> [mm EXCEPT !.bytes = @ + Length(r.val) + 4],
              err |-> NoErr, pos |-> r.pos]

\* (mutant) a block that cannot be read in full is reported as an invalid stream
skipArm_invalid(r, mm) ==
    [m |-> mm, err |-> IF r.err = NoErr THEN NoErr ELSE ErrInvalidStream, pos |-> r.pos]

\* an arm of the switch that only consumes the block: r is the reader's result
skipArm(r, mm) == [m |-> mm, err |-> r.err, pos |-> r.pos]

\* (mutant) the default arm leaves the payload in the source
defaultArm_noSkip(s, p, hh, mm) == [m |-> mm, err |-> NoErr, pos |-> p]

\* the default arm: readPaddingBlock(r, h) with its error dropped
defaultArm(s, p, hh, mm) ==
    LET r == readPaddingBlock(s, p, hh) IN [m |-> mm, err |-> NoErr, pos |-> r.pos]

\* (mutant) type 127 falls into the default arm
invalidArm_skip(s, p, hh, mm) == defaultArm(s, p, hh, mm)

\* case invalidBlock: return nil, ErrInvalidStream
invalidArm(s, p, hh, mm) == [m |-> mm, err |-> ErrInvalidStream, pos |-> p]

\* (mutant) a second block of type 0 is consumed but the first one's fields stay
dispatch_keepFirst(s, p, hh, mm) ==
    LET t == Type(hh)
    IN  CASE t = streamInfoBlock ->
               LET r == readStreamInfoBlock(s, p, hh)
               IN  IF r.err # NoErr THEN [m |-> mm, err |-> r.err, pos |-> r.pos]
                   ELSE IF mm.info # Nil THEN [m |-> mm, err |-> NoErr, pos |-> r.pos]
                   ELSE [m |-> [mm EXCEPT !.info = r.val], err |-> NoErr, pos |-> r.pos]
          [] t = paddingBlock -> skipArm(readPaddingBlock(s, p, hh), mm)
          [] t = applicationBlock -> skipArm(readApplicationBlock(s, p, hh), mm)
          [] t = seektableBlock -> skipArm(readSeekTableBlock(s, p, hh), mm)
          [] t = vorbisCommentBlock ->
               LET r == readVorbisCommentBlock(s, p, hh)
               IN  IF r.err # NoErr THEN [m |-> mm, err |-> r.err, pos |-> r.pos]
                   ELSE [m |-> [mm EXCEPT !.raw = r.val], err |-> NoErr, pos |-> r.pos]
          [] t = cuesheetBlock -> skipArm(readCuesheetBlock(s, p, hh), mm)
          [] t = pictureBlock -> skipArm(readPictureBlock(s, p, hh), mm)
          [] t = invalidBlock -> invalidArm(s, p, hh, mm)
          [] OTHER -> defaultArm(s, p, hh, mm)

\* switch h.Type() { ... }
dispatch(s, p, hh, mm) ==
    LET t == Type(hh)
    IN  CASE t = streamInfoBlock ->
               LET r == readStreamInfoBlock(s, p, hh)
               IN  IF r.err # NoErr THEN [m |-> mm, err |-> r.err, pos |-> r.pos]
                   ELSE [m |-> [mm EXCEPT !.info = r.val], err |-> NoErr, pos |-> r.pos]
          [] t = paddingBlock -> skipArm(readPaddingBlock(s, p, hh), mm)
          [] t = applicationBlock -> skipArm(readApplicationBlock(s, p, hh), mm)
          [] t = seektableBlock -> skipArm(readSeekTableBlock(s, p, hh), mm)
          [] t = vorbisCommentBlock ->
               LET r == readVorbisCommentBlock(s, p, hh)
               IN  IF r.err # NoErr THEN [m |-> mm, err |-> r.err, pos |-> r.pos]
                   ELSE [m |-> [mm EXCEPT !.raw = r.val], err |-> NoErr, pos |-> r.pos]
          [] t = cuesheetBlock -> skipArm(readCuesheetBlock(s, p, hh), mm)
          [] t = pictureBlock -> skipArm(readPictureBlock(s, p, hh), mm)
          [] t = invalidBlock -> invalidArm(s, p, hh, mm)
          [] OTHER -> defaultArm(s, p, hh, mm)

\* (mutant) return &m, err
Failure_partial(e) == [val |-> <<>>, m |-> <<NewMetadata>>, err |-> e]

\* return nil, err
Failure(e) == [val |-> <<>>, m |-> Nil, err |-> e]

\* return &m, nil
Success(mm) == [val |-> <<>>, m |-> <<mm>>, err |-> NoErr]

\* the whole loop as a function of the source: the result and the final cursor
RECURSIVE readMetadata(_, _, _)
readMetadata(s, p, mm) ==
    LET hd == loopHeader(s, p, mm)
        d  == dispatch(s, hd.pos, hd.h, hd.m)
    IN  IF hd.err # NoErr THEN [ret |-> Failure(hd.err), pos |-> hd.pos]
        ELSE IF d.err # NoErr THEN [ret |-> Failure(d.err), pos |-> d.pos]
        ELSE IF IsLast(hd.h) THEN [ret |-> Success(d.m), pos |-> d.pos]
        ELSE readMetadata(s, d.pos, d.m)

\* ReadMetadata on a fresh source
ReadMetadata(s) ==
    LET r == readStreamMarker(s, 0)
    IN  IF r.err # NoErr THEN [ret |-> Failure(r.err), pos |-> r.pos]
        ELSE readMetadata(s, r.pos, NewMetadata)

----------------------------------------------------------------------------
(* The methods of StreamInfo and Metadata.  A time.Duration is an int64     *)
(* count of nanoseconds; a call returns [val, fault], fault telling         *)
(* whether it panicked instead of returning.                                *)

\* time.Duration(si.TotalSamples) * time.Second / time.Duration(si.SampleRate)
Duration(si) ==
    LET rate == Widen(FromInt(si.SampleRate), 8)
    IN  IF rate = Zero(8) THEN [val |-> Zero(8), fault |-> DivideByZero]
        ELSE [val |-> Quo(Mul(si.TotalSamples, Second), rate), fault |-> NoFault]

\* func (m *Metadata) StreamInfo() *StreamInfo { return m.info }
StreamInfo(mm) == mm.info

\* func (m *Metadata) Length() time.Duration { return m.info.Duration() }
MetadataLength(mm) ==
    IF mm.info = Nil THEN [val |-> Zero(8), fault |-> NilDereference]
    ELSE Duration(mm.info[1])

\* func (m *Metadata) Bitrate(filesize int64) int
Bitrate(mm, filesize) ==
    LET z == Sub(Widen(FromInt(filesize), 8), Widen(FromInt(mm.bytes), 8))
        d == MetadataLength(mm)
        ms == Quo(Mul(d.val, Thousand), Second)
        kbps == Quo(z, ms)
    IN  IF d.fault # NoFault THEN [val |-> 0, fault |-> d.fault]
        ELSE IF ms = Zero(8) THEN [val |-> 0, fault |-> DivideByZero]
        ELSE IF IsNeg(kbps) \/ kbps = Zero(8) THEN [val |-> -1, fault |-> NoFault]
        ELSE [val |-> ToInt(kbps), fault |-> NoFault]

----------------------------------------------------------------------------
(* Package id3: the ID3v1 trailer reader.  Strings are byte sequences.  Its *)
(* readString and readBytes are the exact-read primitives above.            *)

ErrInvalidID3v1 == "invalid ID3v1 header"

\* what Seek returns for a position before the start of the source
ErrSeek == "seek: negative position"

id3v1Genres ==
    <<
     "Blues", "Classic Rock", "Country", "Dance", "Disco", "Funk", "Grunge",
     "Hip-Hop", "Jazz", "Metal", "New Age", "Oldies", "Other", "Pop", "R&B",
     "Rap", "Reggae", "Rock", "Techno", "Industrial", "Alternative", "Ska",
     "Death Metal", "Pranks", "Soundtrack", "Euro-Techno", "Ambient",
     "Trip-Hop", "Vocal", "Jazz+Funk", "Fusion", "Trance", "Classical",
     "Instrumental", "Acid", "House", "Game", "Sound Clip", "Gospel",
     "Noise", "AlternRock", "Bass", "Soul", "Punk", "Space", "Meditative",
     "Instrumental Pop", "Instrumental Rock", "Ethnic", "Gothic", "Darkwave",
     "Techno-Industrial", "Electronic", "Pop-Folk", "Eurodance", "Dream",
     "Southern Rock", "Comedy", "Cult", "Gangsta", "Top 40", "Christian Rap",
     "Pop/Funk", "Jungle", "Native American", "Cabaret", "New Wave",
     "Psychadelic", "Rave", "Showtunes", "Trailer", "Lo-Fi", "Tribal",
     "Acid Punk", "Acid Jazz", "Polka", "Retro", "Musical", "Rock & Roll",
     "Hard Rock", "Folk", "Folk-Rock", "National Folk", "Swing",
     "Fast Fusion", "Bebob", "Latin", "Revival", "Celtic", "Bluegrass",
     "Avantgarde", "Gothic Rock", "Progressive Rock", "Psychedelic Rock",
     "Symphonic Rock", "Slow Rock", "Big Band", "Chorus", "Easy Listening",
     "Acoustic", "Humour", "Speech", "Chanson", "Opera", "Chamber Music",
     "Sonata", "Symphony", "Booty Bass", "Primus", "Porn Groove", "Satire",
     "Slow Jam", "Club", "Tango", "Samba", "Folklore", "Ballad",
     "Power Ballad", "Rhythmic Soul", "Freestyle", "Duet", "Punk Rock",
     "Drum Solo", "Acapella", "Euro-House", "Dance Hall"
    >>

\* the literal "TAG"
Tag == <<84, 65, 71>>

\* r.Seek(offset, os.SEEK_END): the new position counts from the end of the
\* source, and a position before its start is an error
SeekEnd(s, p, offset) ==
    IF Len(s) + offset < 0 THEN [err |-> ErrSeek, pos |-> p]
    ELSE [err |-> NoErr, pos |-> Len(s) + offset]

\* strings.TrimSpace on ASCII text: leading and trailing white space removed
IsSpace(b) == b \in {9, 10, 11, 12, 13, 32}

RECURSIVE TrimLeft(_)
TrimLeft(bs) == IF bs # <<>> /\ IsSpace(bs[1]) THEN TrimLeft(Tail(bs)) ELSE bs

RECURSIVE TrimRight(_)
TrimRight(bs) ==
    IF bs # <<>> /\ IsSpace(bs[Len(bs)]) THEN TrimRight(SubSeq(bs, 1, Len(bs) - 1)) ELSE bs

TrimSpace(bs) == TrimRight(TrimLeft(bs))

\* strconv.Atoi with its error dropped: an optional sign and decimal digits
\* give their value, anything else gives 0
RECURSIVE Decimal(_, _)
Decimal(bs, n) == IF n = 0 THEN 0 ELSE 10 * Decimal(bs, n - 1) + (bs[n] - 48)

Atoi(bs) ==
    LET signed == bs # <<>> /\ bs[1] \in {43, 45}
        digits == IF signed THEN Tail(bs) ELSE bs
    IN  IF digits = <<>> \/ \E i \in 1..Len(digits) : digits[i] \notin 48..57 THEN 0
        ELSE IF signed /\ bs[1] = 45 THEN 0 - Decimal(digits, Len(digits))
        ELSE Decimal(digits, Len(digits))

\* a Read of n bytes at offset p, and the Seek, as entries of trace
ReadAt(p, n) == [call |-> "Read", at |-> p, n |-> n]
SeekTo(offset) == [call |-> "Seek", at |-> offset, n |-> 0]

\* the reads that follow one another from offset p, one for each width in ws,
\* up to the first that fails: the values read, the reads made, the error
RECURSIVE readFields(_, _, _)
readFields(s, p, ws) ==
    IF ws = <<>> THEN [vals |-> <<>>, reads |-> <<>>, err |-> NoErr, pos |-> p]
    ELSE LET r == readBytes(s, p, ws[1])
             rest == readFields(s, r.pos, Tail(ws))
         IN  IF r.err # NoErr
             THEN [vals |-> <<>>, reads |-> <<ReadAt(p, ws[1])>>, err |-> r.err, pos |-> r.pos]
             ELSE [vals |-> <<r.val>> \o rest.vals, reads |-> <<ReadAt(p, ws[1])>> \o rest.reads,
                   err |-> rest.err, pos |-> rest.pos]

\* the widths of title, artist, album, year, commentBytes and genreID
FieldWidths == <<30, 30, 30, 4, 29, 1>>

\* &MetadataID3v1{...} from the six values read
NewMetadataID3v1(v) ==
    LET commentBytes == v[5]
        hasTrack == commentBytes[28] = 0
        genreID == v[6][1]
    IN  [title   |-> TrimSpace(v[1]),
         artist  |-> TrimSpace(v[2]),
         album   |-> TrimSpace(v[3]),
         genre   |-> IF genreID < Len(id3v1Genres) THEN id3v1Genres[genreID + 1] ELSE "",
         year    |-> Atoi(v[4]),
         track   |-> IF hasTrack THEN commentBytes[29] ELSE 0,
         comment |-> IF hasTrack THEN TrimSpace(SubSeq(commentBytes, 1, 28)) ELSE <<>>]

----------------------------------------------------------------------------
(* The inputs: byte sources a caller can hand to the package                *)

MaxBlocks == 3      \* a stream carries at most this many block images
MaxShort == 4       \* the short inputs have at most this many bytes

Fill(n, b) == [i \in 1..n |-> b]

\* the 4 bytes of a header with the given last flag (0/1), type and length
HeaderBytes(last, t, n) ==
    <<last * 128 + t, n \div 65536, (n \div 256) % 256, n % 256>>

\* the STREAMINFO payload of the repository's test file (testFileStreamInfo,
\* channels and bits per sample stored as FLAC stores them)
TestStreamInfo ==
    <<16, 0, 16, 0,   0, 1, 83, 0, 35, 48,   10, 196, 66, 240, 0, 0, 64, 152,
      206, 136, 255, 251, 166, 109, 150, 44, 153, 189, 216, 9, 199, 61, 77, 24>>

TypeCodes == {0, 1, 2, 3, 4, 5, 6, 7, 8, 100, 126, 127}

\* block images: a header followed by the bytes that come with it
PlainBlocks ==
    { HeaderBytes(l, t, 2) \o <<165, 90>> : l \in {0, 1}, t \in TypeCodes \ {0} }

StreamInfoBlocks ==
    { HeaderBytes(l, 0, x[1]) \o x[2] :
        l \in {0, 1},
        x \in { <<34, TestStreamInfo>>, <<34, Fill(34, 255)>>,
                <<2, TestStreamInfo>>, <<36, TestStreamInfo \o <<0, 0>> >> } }

OddBlocks ==
    { HeaderBytes(l, t, n) : l \in {0, 1}, t \in {1, 127}, n \in {0} }
    \cup { HeaderBytes(l, t, 16777215) \o <<165, 90>> : l \in {0, 1}, t \in {100, 127} }

BlockImages == PlainBlocks \cup StreamInfoBlocks \cup OddBlocks

\* the images that may precede the final one of a stream
LeadingBlocks ==
    { HeaderBytes(0, 0, 34) \o TestStreamInfo,
      HeaderBytes(0, 0, 34) \o Fill(34, 255),
      HeaderBytes(0, 0, 2) \o TestStreamInfo,
      HeaderBytes(0, 0, 36) \o TestStreamInfo \o <<0, 0>>,
      HeaderBytes(0, 1, 2) \o <<165, 90>>,
      HeaderBytes(0, 4, 2) \o <<165, 90>>,
      HeaderBytes(0, 100, 2) \o <<165, 90>>,
      HeaderBytes(1, 1, 2) \o <<165, 90>> }

RECURSIVE LeadingSeqs(_)
LeadingSeqs(n) ==
    IF n = 0 THEN {<<>>}
    ELSE LET shorter == LeadingSeqs(n - 1)
         IN  shorter \cup { b \o rest : b \in LeadingBlocks, rest \in shorter }

\* s without its last k bytes
CutTail(s, k) == SubSeq(s, 1, IF Len(s) > k THEN Len(s) - k ELSE 0)

\* a marker, leading images, a final image of any kind, and possibly the
\* last byte missing
Streams ==
    { CutTail(StreamMarker \o lead \o final, k) :
        lead \in LeadingSeqs(MaxBlocks - 1),
        final \in BlockImages \cup {<<>>},
        k \in {0, 1} }

ByteSamples == {0, 34, 128, 255}

RECURSIVE ByteSeqs(_)
ByteSeqs(n) ==
    IF n = 0 THEN {<<>>}
    ELSE LET shorter == ByteSeqs(n - 1)
         IN  shorter \cup { <<b>> \o rest : b \in ByteSamples, rest \in shorter }

\* the inputs of TestReadStreamMarker: "fLaC", "FLAC", "fLaC...", "fLa", ""
MarkerInputs ==
    { StreamMarker, <<70, 76, 65, 67>>, StreamMarker \o <<46, 46, 46>>,
      <<102, 76, 97>>, <<>> }

ShortInputs == ByteSeqs(MaxShort) \cup MarkerInputs

\* a STREAMINFO payload with the given sample rate (20 bits), channel field
\* (3 bits), bits-per-sample field (5 bits) and sample count (36 bits, given
\* as 5 bytes whose first is below 16); block sizes, frame sizes and MD5 sum
\* are those of the test file
InfoPayload(rate, nc, bps, ts) ==
    SubSeq(TestStreamInfo, 1, 10)
    \o << rate \div 4096, (rate \div 16) % 256,
          (rate % 16) * 16 + nc * 2 + (bps \div 16), (bps % 16) * 16 + ts[1],
          ts[2], ts[3], ts[4], ts[5] >>
    \o SubSeq(TestStreamInfo, 19, 34)

\* sample rates: none, the least, the test file's, the largest documented
\* one and the largest the 20 bits hold
SampleRates == {0, 1, 44100, 655350, 1048575}

\* sample counts: 0, 1, the test file's 16536, 9223372036 and 9223372037 (the
\* counts on either side of 2^63 nanoseconds), 2^34 and 2^36 - 1
SampleCounts ==
    { <<0, 0, 0, 0, 0>>, <<0, 0, 0, 0, 1>>, <<0, 0, 0, 64, 152>>,
      <<2, 37, 193, 125, 4>>, <<2, 37, 193, 125, 5>>, <<4, 0, 0, 0, 0>>,
      <<15, 255, 255, 255, 255>> }

DurationInputs ==
    { InfoPayload(r, 1, 15, t) : r \in SampleRates, t \in SampleCounts }

\* the payload in which bit k (1..272, from the first bit of the first byte)
\* alone is set, or alone is clear
OneBit(k, set) ==
    [i \in 1..34 |->
        IF i = (k - 1) \div 8 + 1
        THEN IF set THEN 2 ^ (7 - ((k - 1) % 8)) ELSE 255 - 2 ^ (7 - ((k - 1) % 8))
        ELSE IF set THEN 0 ELSE 255]

\* what readStreamInfoBlock is called on: the test file's payload, every
\* single-bit payload and its complement, every channel and bits-per-sample
\* field, the payloads of DurationInputs, a payload one byte short and one
\* followed by further bytes
InfoInputs ==
    { TestStreamInfo, Fill(34, 0), Fill(34, 255),
      CutTail(TestStreamInfo, 1), TestStreamInfo \o <<165, 90>> }
    \cup { OneBit(k, b) : k \in 1..272, b \in BOOLEAN }
    \cup { InfoPayload(44100, nc, bps, <<0, 0, 0, 64, 152>>) : nc \in 0..7, bps \in 0..31 }
    \cup DurationInputs

\* streams that decode successfully, for the calls of Length and Bitrate: one
\* STREAMINFO block, a STREAMINFO block and a padding block, a padding block
\* alone
QueryStreams ==
    { StreamMarker \o HeaderBytes(1, 0, 34) \o p : p \in DurationInputs }
    \cup { StreamMarker \o HeaderBytes(0, 0, 34) \o TestStreamInfo
                        \o HeaderBytes(1, 1, 2) \o <<165, 90>>,
           StreamMarker \o HeaderBytes(1, 1, 2) \o <<165, 90>> }

\* the file sizes Bitrate is asked with
FileSizes == {0, 42, 43, 416, 37442, 1000000}

\* bs followed by as many bytes b as it takes to make n bytes
Pad(bs, n, b) == bs \o Fill(n - Len(bs), b)

\* a 128-byte ID3v1 trailer: tag, title " Song" padded with spaces, artist
\* "Band" and album "Disc" padded with NUL, year, 30 bytes of comment, genre
Trailer(tag, year, comment, genre) ==
    tag \o Pad(<<32, 83, 111, 110, 103>>, 30, 32) \o Pad(<<66, 97, 110, 100>>, 30, 0)
        \o Pad(<<68, 105, 115, 99>>, 30, 0) \o year \o comment \o <<genre>>

\* "TAG", "TAg", "ID3"
TrailerTags == { Tag, <<84, 65, 103>>, <<73, 68, 51>> }

\* "1999", "19 9", "+199"
TrailerYears == { <<49, 57, 57, 57>>, <<49, 57, 32, 57>>, <<43, 49, 57, 57>> }

\* "Hi" with a zero byte and track 7 (ID3v1.1), 30 letters, "Hi" padded with NUL
TrailerComments ==
    { Pad(<<72, 105>>, 28, 32) \o <<0, 7>>, Fill(30, 65), Pad(<<72, 105>>, 30, 0) }

\* genre bytes: the first, one inside, the last of the table, the first
\* outside the table, the largest byte
TrailerGenres == {0, 17, 125, 126, 255}

\* what ReadID3v1 is called on: sources shorter than a trailer, and trailers
\* alone or behind 5 other bytes
ID3Inputs ==
    { <<>>, Tag, Fill(127, 32), Tag \o Fill(124, 0) }
    \cup { prefix \o Trailer(t, y, c, g) :
             prefix \in { <<>>, <<1, 2, 3, 4, 5>> }, t \in TrailerTags,
             y \in TrailerYears, c \in TrailerComments, g \in TrailerGenres }

Calls ==
    { <<"ReadMetadata", s>> : s \in Streams \cup ShortInputs }
    \cup { <<"ReadID3v1", s>> : s \in ID3Inputs }
    \cup { <<f, s>> : f \in {"readStreamMarker", "readBlockHeader",
                              "readUint16", "readUint24"},
                      s \in ShortInputs }
    \cup { <<"readStreamInfoBlock", s>> : s \in InfoInputs }
    \cup { <<"Duration", s>> : s \in DurationInputs }
    \cup { <<f, s>> : f \in {"Length", "Bitrate"}, s \in QueryStreams }

----------------------------------------------------------------------------
(* The state machine                                                        *)

NoRet == [val |-> <<>>, m |-> Nil, err |-> NoErr]

Init ==
    /\ \E c \in Calls : op = c[1] /\ src = c[2]
    /\ pos = 0
    /\ pc = "start"
    /\ h = Zero(4)
    /\ m = NewMetadata
    /\ ret = NoRet
    /\ hist = <<>>
    /\ trace = <<>>

\* a direct call of one of the fixed-width readers (the package's unit tests)
Return(r, v) ==
    /\ pos' = r.pos
    /\ ret' = [val |-> v, m |-> Nil, err |-> r.err]
    /\ pc' = "done"
    /\ UNCHANGED <<trace, src, op, h, m, hist>>

CallReadUint16 ==
    /\ pc = "start" /\ op = "readUint16"
    /\ LET r == readUint16(src, pos) IN Return(r, r.val)

CallReadUint24 ==
    /\ pc = "start" /\ op = "readUint24"
    /\ LET r == readUint24(src, pos) IN Return(r, r.val)

CallReadBlockHeader ==
    /\ pc = "start" /\ op = "readBlockHeader"
    /\ LET r == readBlockHeader(src, pos) IN Return(r, r.val)

CallReadStreamMarker ==
    /\ pc = "start" /\ op = "readStreamMarker"
    /\ LET r == readStreamMarker(src, pos) IN Return(r, <<>>)

\* readStreamInfoBlock on a payload, with the header of the test file
CallReadStreamInfoBlock ==
    /\ pc = "start" /\ op = "readStreamInfoBlock"
    /\ LET r == readStreamInfoBlock(src, pos, <<0, 0, 0, 34>>) IN Return(r, r.val)

\* Duration of the StreamInfo decoded from a payload
CallDuration ==
    /\ pc = "start" /\ op = "Duration"
    /\ \E r \in {readStreamInfoBlock(src, pos, <<0, 0, 0, 34>>)} :
           /\ r.err = NoErr
           /\ pos' = r.pos
           /\ ret' = [val |-> Duration(r.val[1]), m |-> Nil, err |-> NoErr]
    /\ pc' = "done"
    /\ UNCHANGED <<trace, src, op, h, m, hist>>

\* Length of the aggregate ReadMetadata returns for the source
CallLength ==
    /\ pc = "start" /\ op = "Length"
    /\ \E r \in {ReadMetadata(src)} :
           /\ r.ret.err = NoErr
           /\ pos' = r.pos
           /\ m' = r.ret.m[1]
           /\ ret' = [val |-> MetadataLength(r.ret.m[1]), m |-> r.ret.m, err |-> NoErr]
    /\ pc' = "done"
    /\ UNCHANGED <<trace, src, op, h, hist>>

\* Bitrate(filesize) of the aggregate ReadMetadata returns for the source
CallBitrate ==
    /\ pc = "start" /\ op = "Bitrate"
    /\ \E r \in {ReadMetadata(src)}, filesize \in FileSizes :
           /\ r.ret.err = NoErr
           /\ pos' = r.pos
           /\ m' = r.ret.m[1]
           /\ \E b \in {Bitrate(r.ret.m[1], filesize)} :
                  ret' = [val |-> [filesize |-> filesize, kbps |-> b.val, fault |-> b.fault],
                          m |-> r.ret.m, err |-> NoErr]
    /\ pc' = "done"
    /\ UNCHANGED <<trace, src, op, h, hist>>

\* ReadID3v1: r.Seek(-128, os.SEEK_END)
ID3Seek ==
    /\ pc = "start" /\ op = "ReadID3v1"
    /\ \E r \in {SeekEnd(src, pos, -128)} :
           /\ pos' = r.pos
           /\ IF r.err # NoErr
              THEN pc' = "done" /\ ret' = [val |-> Nil, m |-> Nil, err |-> r.err]
              ELSE pc' = "tag" /\ ret' = ret
    /\ trace' = Append(trace, SeekTo(-128))
    /\ UNCHANGED <<src, op, h, m, hist>>

\* (mutant) a tag other than "TAG" is read over
ID3Tag_anyTag ==
    /\ pc = "tag"
    /\ \E r \in {readString(src, pos, 3)} :
           /\ pos' = r.pos
           /\ IF r.err # NoErr
              THEN pc' = "done" /\ ret' = [val |-> Nil, m |-> Nil, err |-> r.err]
              ELSE pc' = "fields" /\ ret' = ret
    /\ trace' = Append(trace, ReadAt(pos, 3))
    /\ UNCHANGED <<src, op, h, m, hist>>

\* ReadID3v1: the 3 bytes of the tag and their comparison with "TAG"
ID3Tag ==
    /\ pc = "tag"
    /\ \E r \in {readString(src, pos, 3)} :
           /\ pos' = r.pos
           /\ IF r.err # NoErr
              THEN pc' = "done" /\ ret' = [val |-> Nil, m |-> Nil, err |-> r.err]
              ELSE IF r.val # Tag
              THEN pc' = "done" /\ ret' = [val |-> Nil, m |-> Nil, err |-> ErrInvalidID3v1]
              ELSE pc' = "fields" /\ ret' = ret
    /\ trace' = Append(trace, ReadAt(pos, 3))
    /\ UNCHANGED <<src, op, h, m, hist>>

\* ReadID3v1: title, artist, album, year, comment and genre, and the result
ID3Fields ==
    /\ pc = "fields"
    /\ \E r \in {readFields(src, pos, FieldWidths)} :
           /\ pos' = r.pos
           /\ trace' = trace \o r.reads
           /\ IF r.err # NoErr
              THEN ret' = [val |-> Nil, m |-> Nil, err |-> r.err]
              ELSE ret' = [val |-> <<NewMetadataID3v1(r.vals)>>, m |-> Nil, err |-> NoErr]
    /\ pc' = "done"
    /\ UNCHANGED <<src, op, h, m, hist>>

\* ReadMetadata: the marker, then into readMetadata with m = Metadata{bytes: 4}
CallReadMetadata ==
    /\ pc = "start" /\ op = "ReadMetadata"
    /\ \E r \in {readStreamMarker(src, pos)} :
           /\ pos' = r.pos
           /\ IF r.err # NoErr
              THEN pc' = "done" /\ ret' = Failure(r.err)
              ELSE pc' = "header" /\ ret' = ret
    /\ m' = NewMetadata
    /\ UNCHANGED <<trace, src, op, h, hist>>

\* (mutant) a failed header read is taken for the end of the blocks
LoopHeader_eofEnds ==
    /\ pc = "header"
    /\ \E hd \in {loopHeader(src, pos, m)} :
           /\ pos' = hd.pos
           /\ IF hd.err # NoErr
              THEN /\ pc' = "done" /\ ret' = Success(m)
                   /\ UNCHANGED <<h, m, hist>>
              ELSE /\ pc' = "dispatch" /\ ret' = ret
                   /\ h' = hd.h
                   /\ m' = hd.m
                   /\ hist' = Append(hist, [at |-> pos, h |-> hd.h])
    /\ UNCHANGED <<trace, src, op>>

\* top of the loop: read a header and count its block
LoopHeader ==
    /\ pc = "header"
    /\ \E hd \in {loopHeader(src, pos, m)} :
           /\ pos' = hd.pos
           /\ IF hd.err # NoErr
              THEN /\ pc' = "done" /\ ret' = Failure(hd.err)
                   /\ UNCHANGED <<h, m, hist>>
              ELSE /\ pc' = "dispatch" /\ ret' = ret
                   /\ h' = hd.h
                   /\ m' = hd.m
                   /\ hist' = Append(hist, [at |-> pos, h |-> hd.h])
    /\ UNCHANGED <<trace, src, op>>

\* the switch on the block type, then the test of the last-block flag
LoopDispatch ==
    /\ pc = "dispatch"
    /\ \E d \in {dispatch(src, pos, h, m)} :
           /\ pos' = d.pos
           /\ IF d.err # NoErr
              THEN pc' = "done" /\ ret' = Failure(d.err) /\ m' = m
              ELSE IF IsLast(h)
              THEN pc' = "done" /\ ret' = Success(d.m) /\ m' = d.m
              ELSE pc' = "header" /\ ret' = ret /\ m' = d.m
    /\ UNCHANGED <<trace, src, op, h, hist>>

Next ==
    \/ CallReadUint16
    \/ CallReadUint24
    \/ CallReadBlockHeader
    \/ CallReadStreamMarker
    \/ CallReadStreamInfoBlock
    \/ CallDuration
    \/ CallLength
    \/ CallBitrate
    \/ CallReadMetadata
    \/ LoopHeader
    \/ LoopDispatch
    \/ ID3Seek
    \/ ID3Tag
    \/ ID3Fields

Spec == Init /\ [][Next]_vars

----------------------------------------------------------------------------
(* What the source bytes say, read off src directly: the yardstick the      *)
(* properties below compare the decoder against.  e is an entry of hist.    *)

SrcLast(e) == src[e.at + 1] >= 128
SrcType(e) == src[e.at + 1] % 128
SrcLength(e) == src[e.at + 2] * 65536 + src[e.at + 3] * 256 + src[e.at + 4]

\* the offset just behind the declared payload of the block of e
SrcEnd(e) == e.at + 4 + SrcLength(e)

LastEntry == hist[Len(hist)]

\* the source starts with "fLaC"
SrcHasSignature == Len(src) >= 4 /\ SubSeq(src, 1, 4) = <<102, 76, 97, 67>>

RECURSIVE SumBlocks(_)
SumBlocks(n) == IF n = 0 THEN 0 ELSE SumBlocks(n - 1) + 4 + SrcLength(hist[n])

Returned == op = "ReadMetadata" /\ pc = "done"
Succeeded == Returned /\ ret.err = NoErr

----------------------------------------------------------------------------
(* Properties                                                               *)

\* C1: whenever ReadMetadata succeeds, Metadata.bytes equals 4 plus the sum
\* over the blocks read of (4 + declared payload length), and that value is
\* the number of bytes consumed from the source (where the audio frames begin).
C1_BytesIsFrameOffset ==
    Succeeded =>
        /\ ret.m[1].bytes = 4 + SumBlocks(Len(hist))
        /\ ret.m[1].bytes = pos

\* the block of the last header can be read in full by its arm of the switch,
\* and where that arm leaves the cursor (pos is right behind the header)
C2_BlockReadable ==
    /\ SrcType(LastEntry) # 127
    /\ SrcType(LastEntry) = 0 => pos + 34 <= Len(src)
    /\ SrcType(LastEntry) \in 1..6 => pos + SrcLength(LastEntry) <= Len(src)

C2_BlockEnd ==
    IF SrcType(LastEntry) = 0 THEN pos + 34
    ELSE IF pos + SrcLength(LastEntry) <= Len(src) THEN pos + SrcLength(LastEntry)
    ELSE Len(src)

\* C2: the loop stops exactly after dispatching the first block whose header
\* has the last-block flag set: a successful return happens only right after
\* the dispatch of such a block, the dispatch of such a block (when it does
\* not fail) returns the aggregate at once with the cursor where the block's
\* reader left it, every header decoded before had the flag clear, a block
\* with the flag clear never ends the call successfully, and nothing is read
\* once the call has returned.
C2_StopsAtLastBlock ==
    [][ /\ op = "ReadMetadata" /\ pc' = "done" /\ ret'.err = NoErr
            => pc = "dispatch" /\ SrcLast(LastEntry)
        /\ pc = "dispatch"
            => /\ \A i \in 1..(Len(hist) - 1) : ~SrcLast(hist[i])
               /\ SrcLast(LastEntry) /\ C2_BlockReadable
                    => /\ pc' = "done" /\ ret'.err = NoErr /\ ret'.m # Nil
                       /\ pos' = C2_BlockEnd
               /\ ~SrcLast(LastEntry) /\ C2_BlockReadable
                    => pc' = "header" /\ pos' = C2_BlockEnd
        /\ pc = "done" => UNCHANGED vars
      ]_vars

\* a successful return after a last block, with bytes of the source left over
C2_Witness ==
    /\ Succeeded /\ Len(hist) = 2 /\ SrcLast(LastEntry) /\ pos < Len(src)

\* no header decoded so far has the last-block flag set
C3_NoLastFlag == \A i \in 1..Len(hist) : ~SrcLast(hist[i])

\* C3 as stated: a source that starts with the signature and in which no
\* decoded header has the last-block flag set makes ReadMetadata return
\* ErrUnexpectedEOF and no aggregate.
C3_NoLastFlagGivesEOF ==
    Returned /\ SrcHasSignature /\ C3_NoLastFlag
        => ret.err = ErrUnexpectedEOF /\ ret.m = Nil

\* C3 amended: such a source makes ReadMetadata terminate with an error and no
\* aggregate; the error is ErrInvalidStream when a header of type 127 was
\* decoded and ErrUnexpectedEOF otherwise.  Termination: every header decoded
\* took 4 fresh bytes of the source, so a source of n bytes allows at most
\* (n - 4) \div 4 iterations of the loop.
C3_NoLastFlagFails ==
    /\ op = "ReadMetadata" /\ pc # "start" /\ SrcHasSignature
        => 4 + 4 * Len(hist) <= pos /\ pos <= Len(src)
    /\ Returned /\ SrcHasSignature /\ C3_NoLastFlag
        => /\ ret.m = Nil
           /\ ret.err = IF Len(hist) > 0 /\ SrcType(LastEntry) = 127
                        THEN ErrInvalidStream ELSE ErrUnexpectedEOF

\* a source of three flag-less blocks, read to its end
C3_Witness ==
    /\ Returned /\ SrcHasSignature /\ C3_NoLastFlag /\ Len(hist) = 3
    /\ ret.err = ErrUnexpectedEOF /\ pos = Len(src)

\* C4: when the source ends before the declared payload of a block (of any
\* type code but the invalid 127) has been read in full, ReadMetadata returns
\* ErrUnexpectedEOF and no aggregate, the last-block flag set or not.
C4_TruncatedPayloadFails ==
    Returned /\ Len(hist) > 0 /\ SrcType(LastEntry) # 127 /\ SrcEnd(LastEntry) > Len(src)
        => ret.err = ErrUnexpectedEOF /\ ret.m = Nil

\* C5: ReadMetadata returns a nil *Metadata with every non-nil error and a
\* non-nil *Metadata with a nil error.
C5_NoPartialResult ==
    Returned => (ret.err # NoErr <=> ret.m = Nil)

\* a failure after a STREAMINFO block had already been stored in m
C5_Witness ==
    Returned /\ ret.err # NoErr /\ m.info # Nil /\ ret.m = Nil

\* C6: readStreamMarker reads exactly 4 bytes; it returns nil iff they are
\* "fLaC" whatever follows, ErrInvalidStream if 4 bytes were there but differ,
\* and ErrUnexpectedEOF if fewer than 4 bytes were there.
C6_MarkerResult ==
    op = "readStreamMarker" /\ pc = "done"
        => /\ ret.err = NoErr <=> SrcHasSignature
           /\ Len(src) >= 4 /\ ~SrcHasSignature => ret.err = ErrInvalidStream
           /\ Len(src) < 4 => ret.err = ErrUnexpectedEOF
           /\ Len(src) >= 4 => pos = 4
           /\ pos <= 4

\* readStreamMarker("FLAC") has returned ErrInvalidStream
C6_Witness ==
    /\ op = "readStreamMarker" /\ pc = "done" /\ src = <<70, 76, 65, 67>>
    /\ ret.err = ErrInvalidStream

\* the decoded fields of entry e agree with the 4 bytes at e.at
C7_Fields(e) ==
    /\ IsLast(e.h) <=> SrcLast(e)
    /\ Type(e.h) = SrcType(e) /\ Type(e.h) \in 0..127
    /\ Length(e.h) = SrcLength(e) /\ Length(e.h) \in 0..16777215
    /\ e.h = << (IF IsLast(e.h) THEN 128 ELSE 0) + Type(e.h),
                Length(e.h) \div 65536, (Length(e.h) \div 256) % 256,
                Length(e.h) % 256 >>

\* C7: a header decoded from the bytes b0 b1 b2 b3 is their big-endian value:
\* IsLast is bit 7 of b0, Type the low 7 bits of b0 (0..127), Length is
\* b1 b2 b3 (0..2^24-1), and the three fields give the header back.
\* [0,0,0,0x22] is (false, 0, 34) and [0x80,0,0,0] is (true, 0, 0).
C7_HeaderFields ==
    /\ \A i \in 1..Len(hist) : C7_Fields(hist[i])
    /\ op = "readBlockHeader" /\ pc = "done" /\ Len(src) >= 4
        => /\ ret.err = NoErr
           /\ C7_Fields([at |-> 0, h |-> ret.val])
           /\ SubSeq(src, 1, 4) = <<0, 0, 0, 34>>
                => ~IsLast(ret.val) /\ Type(ret.val) = streamInfoBlock
                   /\ Length(ret.val) = 34
           /\ SubSeq(src, 1, 4) = <<128, 0, 0, 0>>
                => IsLast(ret.val) /\ Type(ret.val) = streamInfoBlock
                   /\ Length(ret.val) = 0

\* readBlockHeader([0xFF,0xFF,0xFF,0x22]) has returned flag set, type 127, length 0xFFFF22
C7_Witness ==
    /\ op = "readBlockHeader" /\ pc = "done"
    /\ src = <<255, 255, 255, 34>>
    /\ IsLast(ret.val) /\ Type(ret.val) = 127 /\ Length(ret.val) = 16776994

\* the number of bytes the fixed-width reader of the call takes
C8_Width == CASE op = "readBlockHeader" -> 4 [] op = "readUint16" -> 2 [] op = "readUint24" -> 3

\* C8: readBlockHeader, readUint16 and readUint24 on an input shorter than
\* their width (4, 2, 3 bytes) return ErrUnexpectedEOF and the zero value,
\* and on an input of at least the width the big-endian value and nil.
C8_ShortReadIsEOF ==
    op \in {"readBlockHeader", "readUint16", "readUint24"} /\ pc = "done"
        => IF Len(src) < C8_Width
           THEN /\ ret.err = ErrUnexpectedEOF
                /\ \A i \in 1..Len(ret.val) : ret.val[i] = 0
                /\ op = "readBlockHeader"
                     => ~IsLast(ret.val) /\ Type(ret.val) = 0 /\ Length(ret.val) = 0
           ELSE /\ ret.err = NoErr
                /\ pos = C8_Width
                /\ op = "readBlockHeader" => ret.val = SubSeq(src, 1, 4)
                /\ op = "readUint16"
                     => Len(ret.val) = 2 /\ ToInt(ret.val) = 256 * src[1] + src[2]
                /\ op = "readUint24"
                     => /\ Len(ret.val) = 4
                        /\ ToInt(ret.val) = 65536 * src[1] + 256 * src[2] + src[3]

\* readBlockHeader([0x80,0,0]) has returned ErrUnexpectedEOF
C8_Witness ==
    /\ op = "readBlockHeader" /\ pc = "done" /\ src = <<128, 0, 0>>
    /\ ret.err = ErrUnexpectedEOF

\* C9: once a header with type code 127 is decoded, ReadMetadata returns
\* ErrInvalidStream and no aggregate, whatever the header's length and flag,
\* and the cursor stays right behind the 4 bytes of that header.
C9_InvalidTypeFails ==
    op = "ReadMetadata" /\ Len(hist) > 0 /\ SrcType(LastEntry) = 127
        => /\ pos = LastEntry.at + 4
           /\ pc \in {"dispatch", "done"}
           /\ pc = "done" => ret.err = ErrInvalidStream /\ ret.m = Nil

\* a 127 header with the flag set and a huge declared length, after another
\* block, has failed the call with bytes left in the source
C9_Witness ==
    /\ Returned /\ Len(hist) >= 2 /\ SrcType(LastEntry) = 127
    /\ SrcLast(LastEntry) /\ SrcLength(LastEntry) = 16777215
    /\ pos < Len(src) /\ ret.err = ErrInvalidStream

\* the source with the block of entry e retyped as padding (type 1)
C10_AsPadding(e) ==
    [src EXCEPT ![e.at + 1] = (IF SrcLast(e) THEN 128 ELSE 0) + 1]

\* C10: a block of an unrecognised type (7..126) whose payload is all there is
\* skipped by exactly its declared length without error: the next header is
\* decoded right behind the payload (or, for a last block, the call succeeds
\* with the cursor there), and the call's result and final cursor are those
\* of the same source with that block retyped as padding.
C10_UnknownLikePadding ==
    Returned =>
        \A i \in 1..Len(hist) :
            SrcType(hist[i]) \in 7..126 /\ SrcEnd(hist[i]) <= Len(src)
                => /\ i < Len(hist) => hist[i + 1].at = SrcEnd(hist[i])
                   /\ i = Len(hist) /\ SrcLast(hist[i])
                        => ret.err = NoErr /\ pos = SrcEnd(hist[i])
                   /\ i = Len(hist) /\ ~SrcLast(hist[i])
                        => /\ ret.err = ErrUnexpectedEOF
                           /\ Len(src) - SrcEnd(hist[i]) < 4
                   /\ ReadMetadata(C10_AsPadding(hist[i])) = [ret |-> ret, pos |-> pos]

\* a stream with an unknown block (type 100) before its last block, a
\* STREAMINFO, has been decoded successfully
C10_Witness ==
    /\ Succeeded /\ Len(hist) >= 2
    /\ \E i \in 1..(Len(hist) - 1) : SrcType(hist[i]) = 100
    /\ SrcType(LastEntry) = 0 /\ ret.m[1].info # Nil

\* C11: ReadMetadata fails with ErrInvalidStream exactly when 4 signature
\* bytes were read and differ from "fLaC", or when the header decoded last has
\* type code 127 (the cursor is then right behind that header); every other
\* failure is ErrUnexpectedEOF with the source read to its end, and there is
\* no third error.
C11_ErrorKinds ==
    Returned /\ ret.err # NoErr
        => /\ ret.err \in {ErrInvalidStream, ErrUnexpectedEOF}
           /\ ret.err = ErrInvalidStream
                <=> \/ hist = <<>> /\ Len(src) >= 4 /\ ~SrcHasSignature /\ pos = 4
                    \/ Len(hist) > 0 /\ SrcType(LastEntry) = 127
                                     /\ pos = LastEntry.at + 4
           /\ ret.err = ErrUnexpectedEOF => pos = Len(src)

\* the payload of a recognised block (type 1..6) behind another block was cut
\* short: the call has failed with ErrUnexpectedEOF at the end of the source
C11_Witness ==
    /\ Returned /\ Len(hist) >= 2 /\ SrcType(LastEntry) \in 1..6
    /\ SrcEnd(LastEntry) > Len(src)
    /\ ret.err = ErrUnexpectedEOF /\ pos = Len(src)

----------------------------------------------------------------------------
(* The STREAMINFO fields as the source bytes spell them, by plain integer   *)
(* arithmetic on the bytes of the payload that starts behind offset o.      *)

SrcMinBlockSize(o) == src[o + 1] * 256 + src[o + 2]
SrcMaxBlockSize(o) == src[o + 3] * 256 + src[o + 4]
SrcMinFrameSize(o) == src[o + 5] * 65536 + src[o + 6] * 256 + src[o + 7]
SrcMaxFrameSize(o) == src[o + 8] * 65536 + src[o + 9] * 256 + src[o + 10]
SrcSampleRate(o) == src[o + 11] * 4096 + src[o + 12] * 16 + (src[o + 13] \div 16)
SrcNumChannels(o) == (src[o + 13] \div 2) % 8
SrcBitsPerSample(o) == (src[o + 13] % 2) * 16 + (src[o + 14] \div 16)
\* the 36-bit sample count as a word of n bytes
SrcTotalSamples(o, n) ==
    Zero(n - 5) \o <<src[o + 14] % 16, src[o + 15], src[o + 16], src[o + 17], src[o + 18]>>
SrcMD5Sum(o) == SubSeq(src, o + 19, o + 34)

\* where the STREAMINFO payload of the call's source starts: at once for a
\* call on a payload, behind the marker and one header for a stream
InfoAt == IF op \in {"readStreamInfoBlock", "Duration"} THEN 0 ELSE 8

\* the call's source has a STREAMINFO payload there
SrcHasInfo ==
    IF op \in {"readStreamInfoBlock", "Duration"} THEN Len(src) >= 34
    ELSE Len(src) >= 42 /\ src[5] % 128 = 0

\* TotalSamples * 10^9 and the duration in nanoseconds, computed exactly in
\* 96 bits (a 36-bit count times 10^9 is below 2^66)
ExactNanos == Mul(SrcTotalSamples(InfoAt, 12), Widen(Second, 12))
ExactDuration == UDiv(ExactNanos, Widen(FromInt(SrcSampleRate(InfoAt)), 12))

\* C12: Duration, and Length which delegates to it, on a structural block
\* whose SampleRate is 0 return (an unknown duration) and do not panic with a
\* division by zero, whatever TotalSamples is.
C12_ZeroRateIsUnknown ==
    op \in {"Duration", "Length"} /\ pc = "done" /\ SrcHasInfo /\ SrcSampleRate(InfoAt) = 0
        => ret.val.fault = NoFault

\* C13: for SampleRate in 1..655350 and every 36-bit TotalSamples, Duration is
\* TotalSamples * 10^9 / SampleRate (the exact product, integer division), is
\* not negative, and is 0 only when TotalSamples * 10^9 < SampleRate; for
\* 44100 Hz and 16536 samples it is 374965986 ns.
C13_DurationExact ==
    op = "Duration" /\ pc = "done" /\ SrcSampleRate(InfoAt) \in 1..655350
        => /\ ret.val.fault = NoFault
           /\ ~IsNeg(ret.val.val)
           /\ Widen(ret.val.val, 12) = ExactDuration
           /\ ret.val.val = Zero(8)
                => Less(ExactNanos, Widen(FromInt(SrcSampleRate(InfoAt)), 12))
           /\ SrcSampleRate(InfoAt) = 44100 /\ SrcTotalSamples(InfoAt, 8) = <<0, 0, 0, 0, 0, 0, 64, 152>>
                => ToInt(ret.val.val) = 374965986

\* the size of what follows the metadata in a file of the size Bitrate was
\* asked with: the sources of these calls are whole metadata sections
BitratePayload == ret.val.filesize - Len(src)

\* (filesize - bytes) * 8 / seconds / 1000 with seconds = TotalSamples /
\* SampleRate, that is 8 * (filesize - bytes) * SampleRate / (1000 * TotalSamples),
\* computed exactly in 96 bits
ExactKbps ==
    UDiv(Mul(Widen(FromInt(8 * BitratePayload), 12), Widen(FromInt(SrcSampleRate(InfoAt)), 12)),
         Mul(Widen(Thousand, 12), SrcTotalSamples(InfoAt, 12)))

\* the aggregate of the call has a known positive duration
KnownDuration ==
    SrcHasInfo /\ SrcSampleRate(InfoAt) > 0 /\ SrcTotalSamples(InfoAt, 8) # Zero(8)

\* C14: for an aggregate with a known positive duration and a file larger
\* than the metadata, Bitrate(filesize) is (filesize - bytes) * 8 /
\* durationSeconds / 1000 truncated toward zero (where that is at least 1).
C14_BitrateInKbps ==
    (op = "Bitrate" /\ pc = "done" /\ KnownDuration
        /\ BitratePayload > 0 /\ ExactKbps # Zero(12))
        => /\ ret.val.fault = NoFault
           /\ ret.val.kbps > 0
           /\ Widen(FromInt(ret.val.kbps), 12) = ExactKbps

\* C15: Bitrate(filesize) on the aggregate of a successful ReadMetadata never
\* panics and returns a positive number or -1, never 0; it returns -1 when
\* filesize <= bytes and when the duration is unknown or too small: no
\* structural block, SampleRate 0, duration 0 or below one millisecond.
C15_BitrateTotal ==
    op = "Bitrate" /\ pc = "done"
        => /\ ret.val.fault = NoFault
           /\ ret.val.kbps > 0 \/ ret.val.kbps = -1
           /\ BitratePayload <= 0 => ret.val.kbps = -1
           /\ \/ ~SrcHasInfo
              \/ SrcSampleRate(InfoAt) = 0
              \/ Less(ExactDuration, Widen(<<15, 66, 64>>, 12))
                => ret.val.kbps = -1

\* a block of type 0 is among the blocks whose headers were decoded
C16_SawStreamInfo == \E i \in 1..Len(hist) : SrcType(hist[i]) = 0

\* C16: after a successful decode StreamInfo() is non-nil iff a block of type 0
\* was dispatched (and so it is between the iterations of the loop); a
\* well-framed stream without a block of type 0 decodes successfully and
\* StreamInfo() is nil.
C16_InfoIffDispatched ==
    /\ Succeeded => (StreamInfo(ret.m[1]) # Nil <=> C16_SawStreamInfo)
    /\ op = "ReadMetadata" /\ pc = "header" => (StreamInfo(m) # Nil <=> C16_SawStreamInfo)
    /\ (/\ Returned /\ Len(hist) > 0 /\ SrcLast(LastEntry)
        /\ \A i \in 1..Len(hist) :
              SrcType(hist[i]) \notin {0, 127} /\ SrcEnd(hist[i]) <= Len(src))
        => ret.err = NoErr /\ StreamInfo(ret.m[1]) = Nil

\* a stream of two blocks, neither of type 0, has been decoded successfully
\* and its aggregate has no StreamInfo
C16_Witness ==
    /\ Succeeded /\ Len(hist) = 2 /\ ~C16_SawStreamInfo
    /\ StreamInfo(ret.m[1]) = Nil

\* readStreamInfoBlock was called on a source of at least 34 bytes and returned
DecodedInfo == op = "readStreamInfoBlock" /\ pc = "done" /\ Len(src) >= 34

Pack(si) ==
    << si.MinBlockSize \div 256, si.MinBlockSize % 256,
       si.MaxBlockSize \div 256, si.MaxBlockSize % 256,
       si.MinFrameSize \div 65536, (si.MinFrameSize \div 256) % 256, si.MinFrameSize % 256,
       si.MaxFrameSize \div 65536, (si.MaxFrameSize \div 256) % 256, si.MaxFrameSize % 256,
       si.SampleRate \div 4096, (si.SampleRate \div 16) % 256,
       (si.SampleRate % 16) * 16 + si.NumChannels * 2 + (si.BitsPerSample \div 16),
       (si.BitsPerSample % 16) * 16 + si.TotalSamples[4],
       si.TotalSamples[5], si.TotalSamples[6], si.TotalSamples[7], si.TotalSamples[8] >>
    \o si.MD5Sum

\* C18: decoding a 34-byte payload loses nothing: every field is within its
\* width (16, 16, 24, 24, 20, 3, 5, 36 bits and 16 bytes) and packing the
\* decoded fields gives the payload back bit for bit, so that two payloads
\* with the same StreamInfo are the same payload.
C18_RoundTrip ==
    DecodedInfo /\ ret.err = NoErr
        => /\ ret.val[1].MinBlockSize \in 0..65535 /\ ret.val[1].MaxBlockSize \in 0..65535
           /\ ret.val[1].MinFrameSize \in 0..16777215
           /\ ret.val[1].MaxFrameSize \in 0..16777215
           /\ ret.val[1].SampleRate \in 0..1048575
           /\ ret.val[1].NumChannels \in 0..7 /\ ret.val[1].BitsPerSample \in 0..31
           /\ Len(ret.val[1].TotalSamples) = 8
           /\ SubSeq(ret.val[1].TotalSamples, 1, 3) = <<0, 0, 0>>
           /\ ret.val[1].TotalSamples[4] \in 0..15
           /\ Len(ret.val[1].MD5Sum) = 16
           /\ Pack(ret.val[1]) = SubSeq(src, 1, 34)

\* the payload of 34 bytes 0xFF has been decoded, every field at its maximum,
\* and packs back to 34 bytes 0xFF
C18_Witness ==
    /\ DecodedInfo /\ src = Fill(34, 255) /\ ret.err = NoErr
    /\ ret.val[1].MinFrameSize = 16777215 /\ ret.val[1].SampleRate = 1048575
    /\ ret.val[1].NumChannels = 7 /\ ret.val[1].BitsPerSample = 31
    /\ ret.val[1].TotalSamples = <<0, 0, 0, 15, 255, 255, 255, 255>>
    /\ Pack(ret.val[1]) = src

\* C20: every StreamInfo that readStreamInfoBlock produces has NumChannels in
\* 1..8, BitsPerSample in 4..32 and SampleRate in 1..655350.
C20_FieldRanges ==
    DecodedInfo /\ ret.err = NoErr
        => /\ ret.val[1].NumChannels \in 1..8
           /\ ret.val[1].BitsPerSample \in 4..32
           /\ ret.val[1].SampleRate \in 1..655350

\* the entries of trace from the second on are Reads that follow one another
\* from offset p
RECURSIVE Sequential(_, _)
Sequential(i, p) ==
    i > Len(trace)
    \/ /\ trace[i].call = "Read" /\ trace[i].at = p /\ trace[i].n > 0
       /\ Sequential(i + 1, IF p + trace[i].n <= Len(src) THEN p + trace[i].n ELSE Len(src))

\* a Read of trace asked for bytes beyond the end of the source
C19_ReadFailed == \E i \in 2..Len(trace) : trace[i].at + trace[i].n > Len(src)

\* C19: ReadID3v1 seeks once, to 128 bytes before the end of the source, as
\* its first operation, and every later operation is a Read that starts where
\* the one before it ended; when the seek fails it returns the seek's error
\* and nil without reading; when the 3 bytes read first are not "TAG" it
\* returns ErrInvalidID3v1 and nil and reads nothing more; when a Read fails it
\* returns that error and nil; nil comes with every error.
C19_SeekOnceThenRead ==
    op = "ReadID3v1"
        => /\ pc = "start" <=> trace = <<>>
           /\ trace # <<>>
                => /\ trace[1] = SeekTo(-128)
                   /\ Sequential(2, Len(src) - 128)
           /\ pc \in {"tag", "fields"} => pos = Len(src) - 128 + (IF pc = "tag" THEN 0 ELSE 3)
           /\ pc = "done"
                => /\ ret.err # NoErr <=> ret.val = Nil
                   /\ Len(src) < 128 => ret.err = ErrSeek /\ Len(trace) = 1 /\ pos = 0
                   /\ Len(src) >= 128 /\ SubSeq(src, Len(src) - 127, Len(src) - 125) # Tag
                        => /\ ret.err = ErrInvalidID3v1 /\ ret.val = Nil
                           /\ Len(trace) = 2 /\ pos = Len(src) - 125
                   /\ C19_ReadFailed => ret.err = ErrUnexpectedEOF /\ ret.val = Nil
                   /\ Len(src) >= 128 /\ SubSeq(src, Len(src) - 127, Len(src) - 125) = Tag
                        /\ ~C19_ReadFailed
                        => ret.err = NoErr /\ Len(trace) = 8

\* a trailer "TAg..." behind 5 other bytes: ErrInvalidID3v1 after one seek and
\* one read of 3 bytes at offset 5
C19_Witness ==
    /\ op = "ReadID3v1" /\ pc = "done" /\ Len(src) = 133
    /\ ret.err = ErrInvalidID3v1 /\ ret.val = Nil
    /\ trace = <<SeekTo(-128), ReadAt(5, 3)>>

\* the StreamInfo that the 34 bytes behind offset o spell
SrcStreamInfo(o) ==
    [MinBlockSize |-> SrcMinBlockSize(o), MaxBlockSize |-> SrcMaxBlockSize(o),
     MinFrameSize |-> SrcMinFrameSize(o), MaxFrameSize |-> SrcMaxFrameSize(o),
     SampleRate |-> SrcSampleRate(o), NumChannels |-> SrcNumChannels(o),
     BitsPerSample |-> SrcBitsPerSample(o), TotalSamples |-> SrcTotalSamples(o, 8),
     MD5Sum |-> SrcMD5Sum(o)]

\* the entries of hist whose block is of type 0, and the last of them
InfoEntries == { i \in 1..Len(hist) : SrcType(hist[i]) = 0 }
LastInfoEntry == hist[CHOOSE i \in InfoEntries : \A j \in InfoEntries : j <= i]

\* every block whose header was decoded lies in the source in full, as its
\* arm of the switch reads it, and none is of type 127
AllBlocksPresent ==
    \A i \in 1..Len(hist) :
        /\ SrcType(hist[i]) # 127
        /\ SrcType(hist[i]) = 0 => hist[i].at + 4 + 34 <= Len(src)
        /\ SrcType(hist[i]) \in 1..6 => SrcEnd(hist[i]) <= Len(src)

\* C21: a stream with more than one block of type 0 does not crash the
\* decoder: when its blocks are all present and the last one carries the flag
\* the decode succeeds; each type-0 block decoded overwrites the aggregate's
\* StreamInfo, so that between the iterations and after a successful decode
\* StreamInfo() holds the fields of the last type-0 block in stream order.
C21_LastStreamInfoWins ==
    /\ (Returned /\ Cardinality(InfoEntries) > 1 /\ AllBlocksPresent /\ SrcLast(LastEntry))
            => ret.err = NoErr
    /\ (Succeeded /\ InfoEntries # {})
            => StreamInfo(ret.m[1]) = <<SrcStreamInfo(LastInfoEntry.at + 4)>>
    /\ (op = "ReadMetadata" /\ pc = "header" /\ InfoEntries # {})
            => StreamInfo(m) = <<SrcStreamInfo(LastInfoEntry.at + 4)>>

\* a stream of the test file's STREAMINFO followed by one of 34 bytes 0xFF has
\* been decoded: StreamInfo() holds the second block's fields, not the first's
C21_Witness ==
    /\ Succeeded /\ Len(hist) = 2 /\ InfoEntries = {1, 2}
    /\ SrcStreamInfo(8) # SrcStreamInfo(46)
    /\ SrcSampleRate(8) = 44100
    /\ StreamInfo(ret.m[1]) = <<SrcStreamInfo(46)>>
    /\ StreamInfo(ret.m[1])[1].SampleRate = 1048575

\* headers that declare a payload of 0, 2, 36 and 16777215 bytes
DeclaredHeaders == { <<0, 0, 0, 0>>, <<0, 0, 0, 2>>, <<128, 0, 0, 36>>, <<0, 255, 255, 255>> }

\* the block of entry i of hist has been dispatched without error
Dispatched(i) ==
    \/ i < Len(hist)
    \/ i = Len(hist) /\ (pc = "header" \/ Succeeded)

\* where the cursor was right after the dispatch of the block of entry i
CursorAfter(i) == IF i < Len(hist) THEN hist[i + 1].at ELSE pos

\* C22: readStreamInfoBlock ignores the header it is given and on success has
\* consumed exactly 34 bytes, whatever length a type-0 header declared; so
\* after a type-0 block the cursor is at header end + 34, which is header end
\* + declared length only when the declared length is 34.
C22_Consumes34 ==
    /\ op = "readStreamInfoBlock" /\ pc = "done"
          => /\ ret.err = NoErr => pos = 34
             /\ \A hh \in DeclaredHeaders :
                   readStreamInfoBlock(src, 0, hh) = [val |-> ret.val, err |-> ret.err, pos |-> pos]
    /\ op = "ReadMetadata"
          => \A i \in InfoEntries :
                Dispatched(i)
                  => /\ CursorAfter(i) = hist[i].at + 4 + 34
                     /\ CursorAfter(i) = SrcEnd(hist[i]) <=> SrcLength(hist[i]) = 34

\* a type-0 block that declares 2 bytes, then another block: the second header
\* was read 34 bytes behind the first, 32 bytes past the declared end
C22_Witness ==
    /\ op = "ReadMetadata" /\ Len(hist) >= 2
    /\ SrcType(hist[1]) = 0 /\ SrcLength(hist[1]) = 2
    /\ hist[2].at = hist[1].at + 4 + 34
    /\ hist[2].at = SrcEnd(hist[1]) + 32

\* one step of the loop on a block that is not of type 0: reading its header
\* adds 4 + declared length to the byte counter and touches nothing else of
\* the aggregate; its dispatch leaves the aggregate as it is and moves only
\* the cursor; a result that is handed out has a nil raw mapping
C23_OtherBlockStep ==
    /\ (op = "ReadMetadata" /\ pc = "header" /\ pc' = "dispatch"
            /\ SrcType(hist'[Len(hist')]) # 0)
          => /\ m'.bytes = m.bytes + 4 + SrcLength(hist'[Len(hist')])
             /\ m'.info = m.info /\ m'.raw = m.raw
             /\ pos' = pos + 4 /\ src' = src
    /\ (op = "ReadMetadata" /\ pc = "dispatch" /\ SrcType(LastEntry) # 0)
          => /\ m' = m /\ src' = src /\ hist' = hist
             /\ pos' >= pos /\ pos' <= Len(src)
             /\ ret'.err = NoErr /\ pc' = "done" => ret'.m = <<m>>
    /\ (op = "ReadMetadata" /\ pc' = "done" /\ ret'.err = NoErr)
          => ret'.m[1].raw = Nil

\* C23: dispatching a block whose type is not 0 leaves the aggregate's
\* StreamInfo unchanged and changes only the byte counter (by 4 + declared
\* length) and the source cursor; the raw tag mapping of the aggregate is nil
\* after every successful decode, also of streams that contain tag blocks.
C23_OtherBlocksOnlyCount == [][C23_OtherBlockStep]_vars

\* a STREAMINFO block, then a tag block (type 4), then the end of the stream:
\* the decode has succeeded with the first block's fields and a nil raw mapping
C23_Witness ==
    /\ Succeeded /\ Len(hist) >= 2
    /\ SrcType(hist[1]) = 0 /\ SrcType(hist[2]) = 4 /\ SrcLength(hist[2]) = 2
    /\ InfoEntries = {1}
    /\ StreamInfo(ret.m[1]) = <<SrcStreamInfo(8)>>
    /\ ret.m[1].raw = Nil
    /\ ret.m[1].bytes = 4 + SumBlocks(Len(hist))

\* the number of bytes that the Reads of trace from entry i on asked for
RECURSIVE TraceBytes(_)
TraceBytes(i) ==
    IF i > Len(trace) THEN 0
    ELSE (IF trace[i].call = "Read" THEN trace[i].n ELSE 0) + TraceBytes(i + 1)

\* the genre that the last byte of the source, the 128th of its trailer, names
SrcGenre ==
    IF src[Len(src)] < Len(id3v1Genres) THEN id3v1Genres[src[Len(src)] + 1] ELSE ""

\* C24: on success ReadID3v1 has consumed the whole 128-byte trailer after
\* its seek (3 + 30 + 30 + 30 + 4 + 30 + 1 bytes), so that the read position
\* is the end of the source, and the genre is the one that the final (128th)
\* byte of the trailer names, empty when that byte is not below the length of
\* the genre table.
C24_WholeTrailerRead ==
    (op = "ReadID3v1" /\ pc = "done" /\ ret.err = NoErr)
        => /\ TraceBytes(1) = 128
           /\ pos = Len(src)
           /\ ret.val[1].genre = SrcGenre

====
